---- MODULE Spec2Model ----
(***************************************************************************)
(* The receipt task queue of the YooKassa receipt relay: the durable       *)
(* tables (receipt_tasks, payment_events, receipts, the MyTax profile),    *)
(* the worker loop of services/worker.py running in one or two processes,  *)
(* and the management handlers of routers/api.py that touch the queue.     *)
(*                                                                         *)
(* Durable state is what committed transactions wrote.  Each worker pass   *)
(* owns one database session: the rows it loaded and changed live in the   *)
(* session until its commit; closing the session without a commit rolls    *)
(* them back.  The database runs at READ COMMITTED (the PostgreSQL         *)
(* default of core/db.py): a query sees committed rows only, and an UPDATE *)
(* of a row waits while another open transaction has written that row.     *)
(*                                                                         *)
(* Timestamps are kept relative to the current instant: utcnow is the      *)
(* origin, and the passage of d seconds moves every stored timestamp d     *)
(* seconds towards the past.  A timestamp that is already in the past is   *)
(* kept at the origin; the code only ever compares next_retry_at with the  *)
(* current instant.  created_at is the order of insertion.                 *)
(***************************************************************************)
EXTENDS FiniteSets, Integers, Sequences, TLC

\* ---------------------------------------------------------------- bounds
MaxTasks ==
  2
MaxPasses ==
  2
DeepPasses ==
  21
\* Parts of store.amount_path.
MaxPathParts ==
  3
\* Rows of telegram_channels of the store.
MaxChannels ==
  3
\* Rows of relay_targets of the store.
MaxTargets ==
  2
\* The largest relay_retry_limit of a store.
MaxRetryLimit ==
  2
\* Device ids generated for the profile.
MaxDeviceIds ==
  3
MaxDetours ==
  2
\* The same for the queue of a refund, followed with a smaller set of actions.
RefundPasses ==
  4
RefundDetours ==
  4

\* ------------------------------------------------------ program constants
DefaultMaxAttempts ==
  20
AuthRetryMinutes ==
  15
BackoffStepSeconds ==
  20
BackoffCapSeconds ==
  300
utcnow ==
  0

Workers ==
  {"embedded", "standalone"}

TaskStatus ==
  {"pending", "processing", "success", "failed", "waiting_auth"}
TaskType ==
  {"create_receipt", "cancel_receipt"}
EventStatus ==
  {"received", "processed", "failed"}
ReceiptStatus ==
  {"created", "canceled"}

\* The event names for which yookassa_webhook enqueues a task (lines 398, 414;
\* the store has auto_cancel_on_refund on).
CreateEvents ==
  {"payment.succeeded", "payment.waiting_for_capture"}
CancelEvents ==
  {"refund.succeeded", "payment.canceled"}

\* What one call of the provider client can end with.
ProviderOutcomes ==
  {"ok", "auth", "error", "timeout"}
\* What one call of notify_store can end with.
NotifyOutcomes ==
  {"sent", "raised"}

VARIABLES
  tasks,                \* receipt_tasks, committed rows, index = id
  events,               \* payment_events, committed rows, index = id
  receipts,             \* receipts, committed rows, index = id
  profile,              \* the store's MyTaxProfile, committed row
  pc,                   \* position of each worker process
  sess,                 \* the open database session of each worker's pass
  retry,                \* the retry_task request in flight, if any
  run_embedded_worker,  \* settings.run_embedded_worker
  mytax_profile_id,     \* the store's mytax_profile_id, 0 for None
  app_logs,             \* app_logs, committed rows of the worker, when followed
  budget,               \* how far the queue is followed: tasks, passes, detours
  call,                 \* the call of a service under way, with its arguments
  device,               \* device ids generated and sent to the provider, when followed
  detours,              \* departures from the plain course taken so far
  dispatched,           \* per task, while plain: passes that reached the provider client
  plain                 \* per task: never requeued, every pass so far ended in a generic failure

vars ==
  <<tasks, events, receipts, profile, pc, sess, retry, run_embedded_worker,
    mytax_profile_id, app_logs, budget, call, device, detours, dispatched, plain>>

Min(a, b) ==
  IF a <= b THEN a ELSE b

Max(a, b) ==
  IF a >= b THEN a ELSE b

NoTask ==
  [event_id |-> 0, payment_id |-> 0, task_type |-> "create_receipt", receipt_uuid |-> 0,
   status |-> "pending", attempts |-> 0, max_attempts |-> 0,
   next_retry_at |-> 0, error_message |-> "", created_at |-> 0]

\* What the model keeps of a payload: its top-level keys and the id of the
\* payment it is about.
NoPayload ==
  [keys |-> {}, object_id |-> 0]

NoEvent ==
  [payment_id |-> 0, payload |-> NoPayload, status |-> "received",
   relay_status |-> "pending", error_message |-> "", processed |-> FALSE]

NoReceipt ==
  [task_id |-> 0, payment_id |-> 0, receipt_uuid |-> 0, status |-> "created"]

NoSession ==
  [task |-> 0, t |-> NoTask, loaded |-> NoTask, ev |-> NoEvent,
   prof |-> [is_authenticated |-> FALSE, last_error |-> "", device_id |-> 0],
   prof_loaded |-> [is_authenticated |-> FALSE, last_error |-> "", device_id |-> 0],
   added |-> << >>, canceled |-> 0, log |-> << >>, body |-> NoPayload, outcome |-> "none",
   flushed |-> FALSE]

NoRetry ==
  [task |-> 0, loaded |-> NoTask]

NoCall ==
  [op |-> "none"]

TaskIds ==
  1..Len(tasks)

\* ------------------------------------------------------------------ Init
InitTables ==
  /\ tasks = << >>
  /\ events = << >>
  /\ receipts = << >>
  /\ app_logs = << >>
  /\ profile = [is_authenticated |-> FALSE, last_error |-> "", device_id |-> 0]
  /\ device = [generated |-> 0, sent |-> {}]
  /\ pc = [w \in Workers |-> "off"]
  /\ sess = [w \in Workers |-> NoSession]
  /\ retry = NoRetry
  /\ mytax_profile_id = 1
  /\ detours = 0
  /\ dispatched = << >>
  /\ plain = << >>

\* What the model follows of a queue: up to MaxTasks tasks; DeepPasses passes
\* of a lone task served by one worker process, MaxPasses passes otherwise;
\* MaxDetours departures from the plain course.
QueueBudget ==
  [tasks |-> MaxTasks, passes |-> MaxPasses, deep |-> DeepPasses, detours |-> MaxDetours,
   audit |-> FALSE, device |-> FALSE]

RefundBudget ==
  [tasks |-> MaxTasks, passes |-> RefundPasses, deep |-> RefundPasses,
   detours |-> RefundDetours, audit |-> FALSE, device |-> FALSE]

Init ==
  /\ InitTables
  /\ run_embedded_worker = FALSE
  /\ budget = QueueBudget
  /\ call = NoCall

\* The same queue with the worker's rows of app_logs followed.
AuditBudget ==
  [QueueBudget EXCEPT !.audit = TRUE]

InitAudit ==
  /\ InitTables
  /\ run_embedded_worker = FALSE
  /\ budget = AuditBudget
  /\ call = NoCall

\* One worker process and the queue of a refund.
InitRefund ==
  /\ InitTables
  /\ run_embedded_worker = FALSE
  /\ budget = RefundBudget
  /\ call = NoCall

InitEmbedded ==
  /\ InitTables
  /\ run_embedded_worker = TRUE
  /\ budget = QueueBudget
  /\ call = NoCall

\* One worker process, with the device id of the profile followed.
DeviceBudget ==
  [QueueBudget EXCEPT !.device = TRUE]

InitDevice ==
  /\ InitTables
  /\ run_embedded_worker = FALSE
  /\ budget = DeviceBudget
  /\ call = NoCall

\* ------------------------------------------------------------- the clock
Recede(ts, d) ==
  Max(utcnow, ts - d)

RecedeTask(row, d) ==
  [row EXCEPT !.next_retry_at = Recede(@, d)]

\* The instants, still ahead, at which some stored next_retry_at falls due.
DueInstants ==
  {x \in {tasks[i].next_retry_at : i \in TaskIds}
         \cup {sess[w].t.next_retry_at : w \in Workers} : x > utcnow}

\* d seconds pass.
AdvanceTime(d) ==
  /\ tasks' = [i \in TaskIds |-> RecedeTask(tasks[i], d)]
  /\ sess' = [w \in Workers |->
                [sess[w] EXCEPT !.t = RecedeTask(@, d), !.loaded = RecedeTask(@, d)]]
  /\ retry' = [retry EXCEPT !.loaded = RecedeTask(@, d)]
  /\ UNCHANGED <<events, receipts, profile, pc, run_embedded_worker, mytax_profile_id, app_logs, budget, call, device,
                 detours, dispatched, plain>>

\* ------------------------------------------------------ process start/stop
\* The model follows budget.detours departures from the plain course of a task,
\* in which every pass ends in a generic failure: a provider call that
\* succeeds or meets authentication-required, a pass cancelled in flight, a
\* requeue, a change of the store's profile.  A pass that is rolled back by
\* its notification leaves no trace and gives its detour back.
Detour ==
  /\ detours < budget.detours
  /\ detours' = detours + 1

\* Task i stops being one whose every pass ended in a generic failure.
Spoil(i) ==
  /\ plain' = [j \in TaskIds |-> plain[j] /\ j # i]
  /\ dispatched' = [j \in TaskIds |-> IF j = i THEN 0 ELSE dispatched[j]]

\* Closing a session that was not committed rolls its changes back.
Rollback(w) ==
  /\ sess' = [sess EXCEPT ![w] = NoSession]
  /\ Spoil(sess[w].task)

\* worker_loop with the handler of line 239 missing: the exception ends the loop.
TickRaisedFatal(w) ==
  /\ Rollback(w)
  /\ pc' = [pc EXCEPT ![w] = "off"]

\* process_one_task raises an exception other than CancelledError: the session
\* closes without commit, worker_loop logs the exception and goes on to its
\* sleep and the next tick (lines 239-241).
TickRaised(w) ==
  /\ Rollback(w)
  /\ pc' = [pc EXCEPT ![w] = "ready"]

\* worker_loop is cancelled at the await it is in (lines 236-238).
Cancelled(w) ==
  /\ pc' = [pc EXCEPT ![w] = "off"]
  /\ Rollback(w)
  /\ IF sess[w].task # 0 THEN Detour ELSE UNCHANGED detours

\* startup_event without its test of settings.run_embedded_worker.
startup_event_unconditional ==
  /\ pc' = IF pc["embedded"] = "off"
             THEN [pc EXCEPT !["embedded"] = "ready"]
             ELSE pc
  /\ UNCHANGED <<tasks, events, receipts, profile, sess, retry,
                 run_embedded_worker, mytax_profile_id, app_logs, budget, call, device, detours, dispatched, plain>>

\* main.startup_event: start the embedded loop if configured and not running.
startup_event ==
  /\ pc' = IF run_embedded_worker /\ pc["embedded"] = "off"
             THEN [pc EXCEPT !["embedded"] = "ready"]
             ELSE pc
  /\ UNCHANGED <<tasks, events, receipts, profile, sess, retry,
                 run_embedded_worker, mytax_profile_id, app_logs, budget, call, device, detours, dispatched, plain>>

\* main.shutdown_event: cancel the embedded loop if there is one.
shutdown_event ==
  /\ IF pc["embedded"] # "off"
       THEN Cancelled("embedded")
       ELSE UNCHANGED <<pc, sess, detours, dispatched, plain>>
  /\ UNCHANGED <<tasks, events, receipts, profile, retry, run_embedded_worker, mytax_profile_id, app_logs, budget, call, device>>

\* worker_entry.main: the standalone worker process starts its loop.
main ==
  /\ pc["standalone"] = "off"
  /\ pc' = [pc EXCEPT !["standalone"] = "ready"]
  /\ UNCHANGED <<tasks, events, receipts, profile, sess, retry,
                 run_embedded_worker, mytax_profile_id, app_logs, budget, call, device, detours, dispatched, plain>>

\* The standalone process is interrupted: asyncio.run cancels worker_loop.
Interrupt ==
  /\ pc["standalone"] # "off"
  /\ Cancelled("standalone")
  /\ UNCHANGED <<tasks, events, receipts, profile, retry, run_embedded_worker, mytax_profile_id, app_logs, budget, call, device>>

\* ------------------------------------------------------------ the worker
\* The WHERE clause without its condition on next_retry_at.
IsEligibleAnyTime(row) ==
  row.status \in {"pending", "waiting_auth"}

\* The WHERE clause of the selection query (lines 54-57).
IsEligible(row) ==
  /\ row.status \in {"pending", "waiting_auth"}
  /\ row.next_retry_at <= utcnow

Eligible ==
  {i \in TaskIds : IsEligible(tasks[i])}

\* ORDER BY created_at DESC LIMIT 1 instead.
LastCreated(ids) ==
  {i \in ids : \A j \in ids : tasks[i].created_at >= tasks[j].created_at}

\* ORDER BY created_at ASC LIMIT 1 over a set of task ids (lines 58-59).
FirstCreated(ids) ==
  {i \in ids : \A j \in ids : tasks[i].created_at <= tasks[j].created_at}

RECURSIVE SumAttempts(_)
SumAttempts(n) ==
  IF n = 0 THEN 0 ELSE tasks[n].attempts + SumAttempts(n - 1)

\* The passes the model lets the workers commit: many for a lone task served
\* by one worker process, a few otherwise.
PassLimit ==
  IF Len(tasks) <= 1 /\ ~run_embedded_worker THEN budget.deep ELSE budget.passes

\* One tick of worker_loop: process_one_task up to the in-memory processing
\* mark (lines 52-76).  With no eligible task the pass returns and the loop
\* sleeps until the next tick.
Select(w) ==
  /\ pc[w] = "ready"
  /\ IF Eligible = {}
       THEN UNCHANGED <<pc, sess>>
       ELSE /\ SumAttempts(Len(tasks)) < PassLimit
            /\ \E i \in FirstCreated(Eligible) :
                 sess' = [sess EXCEPT ![w] =
                            [NoSession EXCEPT
                               !.task = i,
                               !.loaded = tasks[i],
                               !.t = [tasks[i] EXCEPT !.status = "processing",
                                                      !.attempts = @ + 1]]]
            /\ pc' = [pc EXCEPT ![w] = "selected"]
  /\ UNCHANGED <<tasks, events, receipts, profile, retry, run_embedded_worker, mytax_profile_id, app_logs, budget, call, device,
                 detours, dispatched, plain>>

\* An open transaction other than w's has written row i and not yet committed.
RowLocked(i, w) ==
  \E v \in Workers \ {w} : sess[v].task = i /\ sess[v].flushed

\* The UPDATE statements of a session carry the attributes it changed.
Written(row, loaded, current) ==
  [f \in DOMAIN row |-> IF current[f] # loaded[f] THEN current[f] ELSE row[f]]

\* What the transaction of a pass has written of status and attempts when it
\* commits: the UPDATE of db.flush() (line 77) carries both, and the status
\* the pass ends with differs from the flushed processing mark.
Marked(row, t) ==
  [row EXCEPT !.status = t.status, !.attempts = t.attempts]

\* The rows of app_logs the commit of a session inserts: those added with
\* _create_worker_log (lines 31-47) during the pass.
Inserted(s) ==
  IF budget.audit
    THEN [k \in 1..Len(s.log) |-> [task |-> s.task, event |-> s.log[k]]]
    ELSE << >>

\* The unresolved branch made to reschedule the task like a generic failure.
NotFoundRetried(s) ==
  [s EXCEPT !.t = [@ EXCEPT !.status = "pending",
                            !.error_message = "not_found",
                            !.next_retry_at = utcnow + 20],
            !.log = Append(@, "worker_task_retry"),
            !.outcome = "not_found"]

\* The unresolved branch without its assignment of the status.
NotFoundMarked(s) ==
  [s EXCEPT !.t = [@ EXCEPT !.error_message = "not_found"],
            !.log = Append(@, "worker_task_failed"),
            !.outcome = "not_found"]

\* The branch for a store, event or profile that cannot be resolved (lines
\* 84-86), applied to a session.
NotFound(s) ==
  [s EXCEPT !.t = [@ EXCEPT !.status = "failed", !.error_message = "not_found"],
            !.log = Append(@, "worker_task_failed"),
            !.outcome = "not_found"]

\* The flush of line 77 as a commit of its own: the mark is durable at once.
FlushCommitting(w) ==
  /\ pc[w] = "selected"
  /\ ~RowLocked(sess[w].task, w)
  /\ IF mytax_profile_id = 0
       THEN LET s == NotFound(sess[w])
            IN /\ tasks' = [tasks EXCEPT ![s.task] = Written(Marked(@, s.t), s.loaded, s.t)]
               /\ app_logs' = app_logs \o Inserted(s)
               /\ sess' = [sess EXCEPT ![w] = NoSession]
               /\ pc' = [pc EXCEPT ![w] = "ready"]
               /\ Spoil(s.task)
       ELSE /\ sess' = [sess EXCEPT ![w] =
                         [@ EXCEPT !.flushed = TRUE,
                                   !.ev = events[sess[w].t.event_id],
                                   !.prof = profile,
                                   !.prof_loaded = profile]]
            /\ pc' = [pc EXCEPT ![w] = "flushed"]
            /\ tasks' = [tasks EXCEPT ![sess[w].task] = Marked(@, sess[w].t)]
            /\ UNCHANGED <<app_logs, dispatched, plain>>
  /\ UNCHANGED <<events, receipts, profile, retry, run_embedded_worker, mytax_profile_id,
                 budget, call, device, detours>>

\* db.flush() of the mark, then the loads of store, profile and event
\* (lines 77-82); the UPDATE waits for the row.  A store without a profile
\* ends the pass here: failed, committed, no provider call (lines 84-96).
\* The foreign keys of receipt_tasks keep its store and its event in place.
Flush(w) ==
  /\ pc[w] = "selected"
  /\ ~RowLocked(sess[w].task, w)
  /\ IF mytax_profile_id = 0
       THEN LET s == NotFound(sess[w])
            IN /\ tasks' = [tasks EXCEPT ![s.task] = Written(Marked(@, s.t), s.loaded, s.t)]
               /\ app_logs' = app_logs \o Inserted(s)
               /\ sess' = [sess EXCEPT ![w] = NoSession]
               /\ pc' = [pc EXCEPT ![w] = "ready"]
               /\ Spoil(s.task)
       ELSE /\ sess' = [sess EXCEPT ![w] =
                         [@ EXCEPT !.flushed = TRUE,
                                   !.ev = events[sess[w].t.event_id],
                                   !.prof = profile,
                                   !.prof_loaded = profile]]
            /\ pc' = [pc EXCEPT ![w] = "flushed"]
            /\ UNCHANGED <<tasks, app_logs, dispatched, plain>>
  /\ UNCHANGED <<events, receipts, profile, retry, run_embedded_worker, mytax_profile_id,
                 budget, call, device, detours>>

\* The backoff without its cap.
BackoffUncapped(attempts) ==
  attempts * BackoffStepSeconds

\* seconds=min(300, task.attempts * 20) (line 205).
Backoff(attempts) ==
  Min(BackoffCapSeconds, attempts * BackoffStepSeconds)

\* The ceiling test with > in place of >=.
ExhaustedPast(row) ==
  row.attempts > row.max_attempts

\* if task.attempts >= task.max_attempts (line 201).
Exhausted(row) ==
  row.attempts >= row.max_attempts

\* The except Exception handler without its _create_worker_log.
GenericFailureUnlogged(s) ==
  [s EXCEPT
     !.t = IF Exhausted(s.t)
             THEN [@ EXCEPT !.status = "failed", !.error_message = "error"]
             ELSE [@ EXCEPT !.status = "pending",
                            !.next_retry_at = utcnow + Backoff(s.t.attempts),
                            !.error_message = "error"],
     !.ev = [@ EXCEPT !.status = "failed", !.error_message = "error"],
     !.outcome = "error"]

\* The except Exception handler (lines 200-222) applied to a session.
GenericFailure(s) ==
  [s EXCEPT
     !.t = IF Exhausted(s.t)
             THEN [@ EXCEPT !.status = "failed", !.error_message = "error"]
             ELSE [@ EXCEPT !.status = "pending",
                            !.next_retry_at = utcnow + Backoff(s.t.attempts),
                            !.error_message = "error"],
     !.ev = [@ EXCEPT !.status = "failed", !.error_message = "error"],
     !.log = Append(@, IF Exhausted(s.t) THEN "worker_task_failed"
                                         ELSE "worker_task_retry"),
     !.outcome = "error"]

\* The MyTaxAuthError handler made to fail the task at the attempt ceiling.
AuthRequiredCounted(s) ==
  [s EXCEPT
     !.t = IF s.t.attempts >= s.t.max_attempts
             THEN [@ EXCEPT !.status = "failed", !.error_message = "auth"]
             ELSE [@ EXCEPT !.status = "waiting_auth",
                            !.error_message = "auth",
                            !.next_retry_at = utcnow + AuthRetryMinutes * 60],
     !.ev = [@ EXCEPT !.status = "failed", !.error_message = "auth"],
     !.prof = [@ EXCEPT !.is_authenticated = FALSE, !.last_error = "auth"],
     !.log = Append(@, "worker_auth_required"),
     !.outcome = "auth"]

\* The except MyTaxAuthError handler up to its notification (lines 176-192).
AuthRequired(s) ==
  [s EXCEPT
     !.t = [@ EXCEPT !.status = "waiting_auth",
                     !.error_message = "auth",
                     !.next_retry_at = utcnow + AuthRetryMinutes * 60],
     !.ev = [@ EXCEPT !.status = "failed", !.error_message = "auth"],
     !.prof = [@ EXCEPT !.is_authenticated = FALSE, !.last_error = "auth"],
     !.log = Append(@, "worker_auth_required"),
     !.outcome = "auth"]

\* The bookkeeping of a successful branch without the clearing of the error text.
SucceededKeepingError(s) ==
  [s EXCEPT
     !.t = [@ EXCEPT !.status = "success"],
     !.ev = [@ EXCEPT !.status = "processed", !.processed = TRUE],
     !.prof = [@ EXCEPT !.last_error = ""],
     !.log = Append(@, "worker_task_success"),
     !.outcome = "ok"]

\* The bookkeeping of a successful branch (lines 162-166).
Succeeded(s) ==
  [s EXCEPT
     !.t = [@ EXCEPT !.status = "success", !.error_message = ""],
     !.ev = [@ EXCEPT !.status = "processed", !.processed = TRUE],
     !.prof = [@ EXCEPT !.last_error = ""],
     !.log = Append(@, "worker_task_success"),
     !.outcome = "ok"]

\* The most recent receipt of a payment (ORDER BY created_at DESC LIMIT 1).
LatestReceipt(payment) ==
  LET ids == {r \in 1..Len(receipts) : receipts[r].payment_id = payment}
  IN IF ids = {} THEN 0 ELSE CHOOSE r \in ids : \A q \in ids : q <= r

\* A commit that leaves the event update out.
CommitWithoutEvent(w, s) ==
  /\ tasks' = [tasks EXCEPT ![s.task] = Written(Marked(@, s.t), s.loaded, s.t)]
  /\ events' = events
  /\ profile' = Written(profile, s.prof_loaded, s.prof)
  /\ receipts' = [r \in 1..Len(receipts) |->
                    IF r = s.canceled THEN [receipts[r] EXCEPT !.status = "canceled"]
                    ELSE receipts[r]]
                 \o [k \in 1..Len(s.added) |->
                       [s.added[k] EXCEPT !.receipt_uuid = Len(receipts) + k]]
  /\ app_logs' = app_logs \o Inserted(s)
  /\ sess' = [sess EXCEPT ![w] = NoSession]
  /\ pc' = [pc EXCEPT ![w] = "ready"]

\* db.commit() of a session (line 228).  The provider's receipt identifier is
\* represented by the number of the row that stores it.
Commit(w, s) ==
  /\ tasks' = [tasks EXCEPT ![s.task] = Written(Marked(@, s.t), s.loaded, s.t)]
  /\ events' = [events EXCEPT ![s.t.event_id] = s.ev]
  /\ profile' = Written(profile, s.prof_loaded, s.prof)
  /\ receipts' = [r \in 1..Len(receipts) |->
                    IF r = s.canceled THEN [receipts[r] EXCEPT !.status = "canceled"]
                    ELSE receipts[r]]
                 \o [k \in 1..Len(s.added) |->
                       [s.added[k] EXCEPT !.receipt_uuid = Len(receipts) + k]]
  /\ app_logs' = app_logs \o Inserted(s)
  /\ sess' = [sess EXCEPT ![w] = NoSession]
  /\ pc' = [pc EXCEPT ![w] = "ready"]

\* The provider client with a transport failure dropped: the call returns.
CallResultSwallowing(s, o) ==
  IF s.t.task_type = "cancel_receipt" /\ s.t.receipt_uuid = 0 THEN "error"
  ELSE IF ~s.prof.is_authenticated THEN "auth"
  ELSE IF o = "timeout" THEN "ok"
  ELSE o

\* What the call of the provider client ends with, given the answer o the
\* provider would give: the cancel branch needs a receipt_uuid (lines 138-140),
\* ensure_authenticated refuses an unauthenticated profile before any request,
\* and _request hands a timeout or transport error of httpx on as the
\* provider's error (mytax.py, lines 206-207).
CallResult(s, o) ==
  IF s.t.task_type = "cancel_receipt" /\ s.t.receipt_uuid = 0 THEN "error"
  ELSE IF ~s.prof.is_authenticated THEN "auth"
  ELSE IF o = "timeout" THEN "error"
  ELSE o

\* The client gets as far as its request: the cancel branch has a
\* receipt_uuid and ensure_authenticated lets the profile through.
RequestSent(s) ==
  /\ ~(s.t.task_type = "cancel_receipt" /\ s.t.receipt_uuid = 0)
  /\ s.prof.is_authenticated

\* _resolved_device_id (mytax.py, lines 229-234) on the profile of the
\* session: the device id it has, or one never seen before, which uuid4
\* gives and the method assigns to the profile.
_resolved_device_id(prof) ==
  IF prof.device_id # 0 THEN prof.device_id ELSE device.generated + 1

\* The session after _headers has built the headers of the request
\* (mytax.py, lines 253-271), when the device id is followed.
Resolved(s) ==
  IF budget.device /\ RequestSent(s)
    THEN [s EXCEPT !.prof.device_id = _resolved_device_id(s.prof)]
    ELSE s

\* relay_notification with the receipt URL set on the payload it was given.
relay_body_in_place(s) ==
  LET body == [s.ev.payload EXCEPT !.keys = @ \cup {"generated_receipt_url"}]
  IN [s EXCEPT !.body = body, !.ev.payload = body]

\* The body relay_notification sends for the event of the session (relay.py,
\* lines 29-31): a copy of the payload, with the receipt URL under a key of
\* its own.
relay_body(s) ==
  [s EXCEPT !.body = [s.ev.payload EXCEPT !.keys = @ \cup {"generated_receipt_url"}]]

\* The provider call of the pass and what follows it up to the next await
\* (lines 98-127, 137-153, 176-192, 200-228).
Provider(w, o) ==
  /\ pc[w] = "flushed"
  /\ LET s == Resolved(sess[w])
         r == CallResult(s, o)
     IN /\ IF r = "error" THEN UNCHANGED detours ELSE Detour
        /\ s.prof.device_id <= MaxDeviceIds
        /\ device' = IF budget.device /\ RequestSent(s)
                       THEN [generated |-> IF sess[w].prof.device_id = 0
                                             THEN device.generated + 1
                                             ELSE device.generated,
                             sent |-> device.sent \cup {s.prof.device_id}]
                       ELSE device
        /\ dispatched' = [dispatched EXCEPT ![s.task] = IF plain[s.task] THEN @ + 1 ELSE @]
        /\ CASE r = "error" ->
                  Commit(w, GenericFailure(s))
             [] r = "auth" ->
                  /\ sess' = [sess EXCEPT ![w] = AuthRequired(s)]
                  /\ pc' = [pc EXCEPT ![w] = "notifying"]
                  /\ UNCHANGED <<tasks, events, receipts, profile, app_logs>>
             [] r = "ok" /\ s.t.task_type = "create_receipt" ->
                  /\ sess' = [sess EXCEPT ![w] =
                       [relay_body(s) EXCEPT
                          !.outcome = "ok",
                          !.added = <<[NoReceipt EXCEPT
                                         !.task_id = s.task,
                                         !.payment_id = s.t.payment_id]>>]]
                  /\ pc' = [pc EXCEPT ![w] = "notifying"]
                  /\ UNCHANGED <<tasks, events, receipts, profile, app_logs>>
             [] r = "ok" /\ s.t.task_type = "cancel_receipt" ->
                  /\ sess' = [sess EXCEPT ![w] =
                       [s EXCEPT !.outcome = "ok",
                                 !.canceled = LatestReceipt(s.t.payment_id)]]
                  /\ pc' = [pc EXCEPT ![w] = "notifying"]
                  /\ UNCHANGED <<tasks, events, receipts, profile, app_logs>>
  /\ UNCHANGED <<retry, run_embedded_worker, mytax_profile_id, budget, call, plain>>

\* The notifications of the pass (relay_notification, notify_store) and the
\* rest of the pass (lines 127-135, 155-174, 193-228).  n is what notify_store
\* ends with: it lets a transport exception of its POST escape.
Notify(w, n) ==
  /\ pc[w] = "notifying"
  /\ LET s == sess[w]
     IN CASE s.outcome = "ok" /\ n = "sent" ->
               /\ Commit(w, Succeeded(s))
               /\ Spoil(s.task)
               /\ UNCHANGED detours
          [] s.outcome = "ok" /\ n = "raised" ->
               /\ Commit(w, GenericFailure(s))
               /\ UNCHANGED <<detours, dispatched, plain>>
          [] s.outcome = "auth" /\ n = "sent" ->
               /\ Commit(w, s)
               /\ Spoil(s.task)
               /\ UNCHANGED detours
          [] s.outcome = "auth" /\ n = "raised" ->
               /\ TickRaised(w)
               /\ detours' = detours - 1
               /\ UNCHANGED <<tasks, events, receipts, profile, app_logs>>
  /\ UNCHANGED <<retry, run_embedded_worker, mytax_profile_id, budget, call, device>>

\* ------------------------------------------------- the management surface
\* yookassa_webhook for an event that qualifies for a task: one PaymentEvent
\* and one task.
\* A payment notification carries a payment not seen before; a refund names
\* any payment.
yookassa_webhook(event_name, payment) ==
  /\ Len(tasks) < budget.tasks
  /\ Len(tasks) >= 1 => SumAttempts(Len(tasks)) < budget.passes
  /\ event_name \in CreateEvents => payment = Len(events) + 1
  /\ LET latest == LatestReceipt(payment)
         row == [event_id |-> Len(events) + 1,
                 payment_id |-> payment,
                 task_type |-> IF event_name \in CreateEvents
                                 THEN "create_receipt" ELSE "cancel_receipt",
                 receipt_uuid |-> IF event_name \in CancelEvents /\ latest # 0
                                    THEN receipts[latest].receipt_uuid ELSE 0,
                 status |-> "pending",
                 attempts |-> 0,
                 max_attempts |-> DefaultMaxAttempts,
                 next_retry_at |-> utcnow,
                 error_message |-> "",
                 created_at |-> Len(tasks) + 1]
     IN /\ events' = Append(events, [NoEvent EXCEPT
                                        !.payment_id = payment,
                                        !.payload = [keys |-> {"event", "object"},
                                                     object_id |-> payment]])
        /\ tasks' = Append(tasks, row)
  /\ dispatched' = Append(dispatched, 0)
  /\ plain' = Append(plain, TRUE)
  /\ UNCHANGED <<receipts, profile, pc, sess, retry, run_embedded_worker, mytax_profile_id, app_logs, budget, call, device, detours>>

\* The assignments of retry_task (lines 261-263) on the row as it was loaded.
Requeued(loaded) ==
  [loaded EXCEPT !.status = "pending", !.error_message = "", !.next_retry_at = utcnow]

\* A worker's open transaction has written row i and not yet committed.
RowBusy(i) ==
  \E w \in Workers : sess[w].task = i /\ sess[w].flushed

\* retry_task: db.get loads the committed row, the assignments follow, and the
\* commit sends the UPDATE (lines 258-265).  next_retry_at is always part of
\* it: the instant read at line 263 is never the one that was loaded.  While
\* a worker's open transaction holds the row the UPDATE waits, and
\* retry_task_resume finishes the request.
retry_task(i) ==
  /\ retry = NoRetry
  /\ Detour
  /\ IF RowBusy(i)
       THEN /\ retry' = [task |-> i, loaded |-> tasks[i]]
            /\ UNCHANGED <<tasks, dispatched, plain>>
       ELSE /\ tasks' = [tasks EXCEPT ![i] =
                            [Written(@, @, Requeued(@)) EXCEPT !.next_retry_at = utcnow]]
            /\ Spoil(i)
            /\ UNCHANGED retry
  /\ UNCHANGED <<events, receipts, profile, pc, sess, run_embedded_worker, mytax_profile_id, app_logs, budget, call, device>>

\* The waiting UPDATE of retry_task goes through once the row is free.
retry_task_resume ==
  /\ retry # NoRetry
  /\ ~RowBusy(retry.task)
  /\ tasks' = [tasks EXCEPT ![retry.task] =
                 [Written(@, retry.loaded, Requeued(retry.loaded))
                    EXCEPT !.next_retry_at = utcnow]]
  /\ Spoil(retry.task)
  /\ retry' = NoRetry
  /\ UNCHANGED <<events, receipts, profile, pc, sess, run_embedded_worker, mytax_profile_id, app_logs, budget, call, device, detours>>

\* update_store: the operator sets the store's mytax_profile_id, to None or
\* to the profile (lines 95-101).
update_store(profile_id) ==
  /\ profile_id # mytax_profile_id
  /\ Detour
  /\ mytax_profile_id' = profile_id
  /\ UNCHANGED <<tasks, events, receipts, profile, pc, sess, retry, run_embedded_worker,
                 app_logs, budget, call, device, dispatched, plain>>

\* login_profile: the operator re-authenticates the profile (lines 152-158).
login_profile(enough) ==
  /\ profile' = IF enough
                  THEN [profile EXCEPT !.is_authenticated = TRUE, !.last_error = ""]
                  ELSE [profile EXCEPT !.is_authenticated = FALSE, !.last_error = "login"]
  /\ UNCHANGED <<tasks, events, receipts, pc, sess, retry, run_embedded_worker, mytax_profile_id, app_logs, budget, call, device,
                 detours, dispatched, plain>>

\* ------------------------------------------------------------------ Next
Next ==
  \/ startup_event
  \/ shutdown_event
  \/ main
  \/ Interrupt
  \/ \E d \in DueInstants : AdvanceTime(d)
  \/ \E w \in Workers : Select(w)
  \/ \E w \in Workers : Flush(w)
  \/ \E w \in Workers, o \in ProviderOutcomes : Provider(w, o)
  \/ \E w \in Workers, n \in NotifyOutcomes : Notify(w, n)
  \/ \E e \in CreateEvents \cup CancelEvents, p \in 1..(Len(events) + 1) :
       yookassa_webhook(e, p)
  \/ \E i \in TaskIds : retry_task(i)
  \/ retry_task_resume
  \/ \E enough \in BOOLEAN : login_profile(enough)
  \/ \E profile_id \in {0, 1} : update_store(profile_id)

\* One worker process: the standalone worker (run_embedded_worker is off).
Spec ==
  Init /\ [][Next]_vars

\* Two worker processes: the embedded loop of the API process as well.
SpecEmbedded ==
  InitEmbedded /\ [][Next]_vars

\* The worker, the webhook and the operator's login on the queue of a refund.
NextRefund ==
  \/ main
  \/ \E d \in DueInstants : AdvanceTime(d)
  \/ \E w \in Workers : Select(w)
  \/ \E w \in Workers : Flush(w)
  \/ \E w \in Workers, o \in ProviderOutcomes : Provider(w, o)
  \/ \E w \in Workers, n \in NotifyOutcomes : Notify(w, n)
  \/ \E e \in CreateEvents \cup CancelEvents, p \in 1..(Len(events) + 1) :
       yookassa_webhook(e, p)
  \/ \E enough \in BOOLEAN : login_profile(enough)

SpecRefund ==
  InitRefund /\ [][NextRefund]_vars

\* The INSERT of the pass's app_logs row fails when the session is flushed
\* for its commit (lines 95, 228): the exception leaves process_one_task and
\* the transaction, with everything the pass wrote, is rolled back.
AppLogWriteFails(w) ==
  /\ \/ pc[w] \in {"flushed", "notifying"}
     \/ pc[w] = "selected" /\ mytax_profile_id = 0 /\ ~RowLocked(sess[w].task, w)
  /\ TickRaised(w)
  /\ UNCHANGED <<tasks, events, receipts, profile, retry, run_embedded_worker,
                 mytax_profile_id, app_logs, budget, call, device, detours>>

\* The worker, the webhook and the operator, with the audit log followed.
NextAudit ==
  \/ main
  \/ \E d \in DueInstants : AdvanceTime(d)
  \/ \E w \in Workers : Select(w)
  \/ \E w \in Workers : Flush(w)
  \/ \E w \in Workers, o \in ProviderOutcomes : Provider(w, o)
  \/ \E w \in Workers, n \in NotifyOutcomes : Notify(w, n)
  \/ \E w \in Workers : AppLogWriteFails(w)
  \/ \E e \in CreateEvents \cup CancelEvents, p \in 1..(Len(events) + 1) :
       yookassa_webhook(e, p)
  \/ \E enough \in BOOLEAN : login_profile(enough)
  \/ \E profile_id \in {0, 1} : update_store(profile_id)

SpecAudit ==
  InitAudit /\ [][NextAudit]_vars

\* The worker, its interruption, the webhook and the operator's login, with
\* the device id followed.
NextDevice ==
  \/ main
  \/ Interrupt
  \/ \E d \in DueInstants : AdvanceTime(d)
  \/ \E w \in Workers : Select(w)
  \/ \E w \in Workers : Flush(w)
  \/ \E w \in Workers, o \in ProviderOutcomes : Provider(w, o)
  \/ \E w \in Workers, n \in NotifyOutcomes : Notify(w, n)
  \/ \E e \in CreateEvents \cup CancelEvents, p \in 1..(Len(events) + 1) :
       yookassa_webhook(e, p)
  \/ \E enough \in BOOLEAN : login_profile(enough)

SpecDevice ==
  InitDevice /\ [][NextDevice]_vars

\* worker_loop never stops ticking (lines 231-241): the process starts, and a
\* pass that can take its next step takes it.
Ticking ==
  /\ WF_vars(main)
  /\ WF_vars(\E w \in Workers : Select(w))
  /\ WF_vars(\E w \in Workers : Flush(w))
  /\ WF_vars(\E w \in Workers, o \in ProviderOutcomes : Provider(w, o))
  /\ WF_vars(\E w \in Workers, n \in NotifyOutcomes : Notify(w, n))

SpecTicking ==
  InitRefund /\ [][NextRefund]_vars /\ Ticking

\* ------------------------------------------------------- the service calls
\* The specifications of the service calls leave the queue as it starts.
InitIdle ==
  /\ InitTables
  /\ run_embedded_worker = FALSE
  /\ budget = QueueBudget

Idle ==
  UNCHANGED <<tasks, events, receipts, profile, pc, sess, retry, run_embedded_worker,
              mytax_profile_id, app_logs, budget, device, detours, dispatched, plain>>

\* ------------------------------------------------------------ notify_store
\* The telegram_channels rows of the store: is_active, what events_json holds
\* with respect to the event notified, include_receipt_url, and what the
\* sendMessage POST to the channel ends with.
Channels ==
  [is_active : BOOLEAN,
   events_json : {"empty", "with_event", "without_event"},
   include_receipt_url : BOOLEAN,
   post : {"response", "exception"}]

ChannelLists ==
  UNION {[1..n -> Channels] : n \in 0..MaxChannels}

RECURSIVE SelectActive(_)
\* The rows the query of line 17 returns, by their place in the table.
SelectActive(rows) ==
  IF rows = << >> THEN << >>
  ELSE LET rest == SelectActive(SubSeq(rows, 1, Len(rows) - 1))
       IN IF rows[Len(rows)].is_active THEN Append(rest, Len(rows)) ELSE rest

\* The test of line 23 fails: the channel is not skipped.
Subscribed(channel) ==
  ~(channel.events_json # "empty" /\ channel.events_json = "without_event")

InitNotify ==
  /\ InitIdle
  /\ \E rows \in ChannelLists, receipt_url \in {"", "url"} :
       call = [op |-> "notify_store", rows |-> rows, receipt_url |-> receipt_url,
               channels |-> SelectActive(rows), k |-> 1, posted |-> {},
               with_receipt |-> {}, result |-> "running"]

\* The test of line 26: the line with the receipt URL is added to the text.
ReceiptLine(channel, receipt_url) ==
  channel.include_receipt_url /\ receipt_url # ""

\* One iteration of the loop of notify_store (lines 22-37), or its return
\* when the channels are exhausted.  Nothing catches what client.post raises.
\* posted holds the rows a POST was made for, with_receipt those whose text
\* carried the receipt line.
notify_store ==
  /\ call.op = "notify_store"
  /\ call.result = "running"
  /\ IF call.k > Len(call.channels)
       THEN call' = [call EXCEPT !.result = "returned"]
       ELSE LET id == call.channels[call.k]
                lined == IF ReceiptLine(call.rows[id], call.receipt_url) THEN {id} ELSE {}
            IN IF ~Subscribed(call.rows[id])
                 THEN call' = [call EXCEPT !.k = @ + 1]
                 ELSE IF call.rows[id].post = "exception"
                        THEN call' = [call EXCEPT !.posted = @ \cup {id},
                                                  !.with_receipt = @ \cup lined,
                                                  !.result = "raised"]
                        ELSE call' = [call EXCEPT !.k = @ + 1, !.posted = @ \cup {id},
                                                  !.with_receipt = @ \cup lined]
  /\ Idle

SpecNotify ==
  InitNotify /\ [][notify_store]_vars

\* ------------------------------------------- the amount of a created receipt
\* The values a JSON payload can hold at a key.
JsonValues ==
  {"null", "false", "true", "zero", "number", "empty_string", "numeric_string",
   "text_string", "empty_list", "list", "empty_dict", "dict"}

\* The payload along the parts of store.amount_path: at place k, what the k-th
\* part finds in the dict reached by the parts before it, "absent" for a
\* missing key.
PayloadChains ==
  UNION {[1..n -> JsonValues \cup {"absent"}] : n \in 1..MaxPathParts}

RECURSIVE get_nested(_, _, _)
\* get_nested (template.py, lines 9-16) after i parts of the path.
get_nested(chain, i, default) ==
  IF i = Len(chain) THEN chain[i]
  ELSE IF (i = 0 \/ chain[i] = "dict") /\ chain[i + 1] # "absent"
         THEN get_nested(chain, i + 1, default)
         ELSE default

\* bool(value) of Python.
Truthy(value) ==
  value \in {"true", "number", "numeric_string", "text_string", "list", "dict"}

\* float(amount_raw or 0) (worker.py, line 105): the amount, in whole units,
\* or the exception raised.
float(amount_raw) ==
  CASE ~Truthy(amount_raw) -> [raised |-> "", amount |-> 0]
    [] amount_raw = "true" -> [raised |-> "", amount |-> 1]
    [] amount_raw \in {"number", "numeric_string"} -> [raised |-> "", amount |-> 100]
    [] amount_raw = "text_string" -> [raised |-> "ValueError", amount |-> 0]
    [] amount_raw \in {"list", "dict"} -> [raised |-> "TypeError", amount |-> 0]

InitAmount ==
  /\ InitIdle
  /\ \E chain \in PayloadChains :
       call = [op |-> "create_receipt", payload |-> chain, amount_raw |-> "unset",
               invoked |-> FALSE, amount |-> 0, raised |-> ""]

\* The create branch of the pass up to the call of the provider client
\* (worker.py, lines 102-112).
create_receipt_branch ==
  /\ call.op = "create_receipt"
  /\ call.amount_raw = "unset"
  /\ LET amount_raw == get_nested(call.payload, 0, "zero")
         amount == float(amount_raw)
     IN call' = [call EXCEPT !.amount_raw = amount_raw,
                             !.invoked = (amount.raised = ""),
                             !.amount = amount.amount,
                             !.raised = amount.raised]
  /\ Idle

SpecAmount ==
  InitAmount /\ [][create_receipt_branch]_vars

\* ------------------------------------------------- MyTaxClient._request
\* What client.request ends with: a response, or an httpx.HTTPError.
Transports ==
  {"response", "timeout", "connect_error"}

StatusCodes ==
  {200, 201, 204, 302, 400, 401, 403, 404, 429, 500, 503}

\* The body of a response: no bytes, white space only, a JSON object, another
\* JSON value, or bytes that are not JSON.
Bodies ==
  {"empty", "blank", "json_object", "json_other", "not_json"}

\* The Content-Type header of a response.
ContentTypes ==
  {"application/json", "text/html", "absent"}

\* response.json(): the parsed value, or the ValueError of the JSON decoder.
response_json(body) ==
  CASE body = "json_object" -> [raised |-> "", value |-> "object"]
    [] body = "json_other" -> [raised |-> "", value |-> "other"]
    [] body \in {"empty", "blank", "not_json"} -> [raised |-> "ValueError", value |-> "none"]

\* _request (lines 167-207): the exception that reaches the caller, the value
\* returned, and the status and body an error carries.
_request(transport, status_code, content_type, body) ==
  LET nothing == [raised |-> "", value |-> "none", status_code |-> 0, response_text |-> "none"]
  IN IF transport # "response"
       THEN [nothing EXCEPT !.raised = "MyTaxApiError"]
     ELSE IF status_code \in {401, 403}
       THEN [nothing EXCEPT !.raised = "MyTaxAuthError"]
     ELSE IF status_code >= 400
       THEN [nothing EXCEPT !.raised = "MyTaxApiError",
                            !.status_code = status_code,
                            !.response_text = body]
     ELSE IF body # "empty"
       THEN IF content_type = "application/json"
              THEN [nothing EXCEPT !.raised = response_json(body).raised,
                                   !.value = response_json(body).value]
            ELSE IF body # "blank"
              THEN IF response_json(body).raised = ""
                     THEN [nothing EXCEPT !.value = response_json(body).value]
                     ELSE [nothing EXCEPT !.value = "raw_text"]
            ELSE [nothing EXCEPT !.value = "empty_dict"]
     ELSE [nothing EXCEPT !.value = "empty_dict"]

InitRequest ==
  /\ InitIdle
  /\ \E transport \in Transports, status_code \in StatusCodes,
        content_type \in ContentTypes, body \in Bodies :
       call = [op |-> "_request", transport |-> transport, status_code |-> status_code,
               content_type |-> content_type, body |-> body, done |-> FALSE,
               result |-> [raised |-> "", value |-> "none", status_code |-> 0,
                           response_text |-> "none"]]

\* One call of _request by a provider client.
request ==
  /\ call.op = "_request"
  /\ ~call.done
  /\ call' = [call EXCEPT
                !.done = TRUE,
                !.result = _request(call.transport, call.status_code,
                                    call.content_type, call.body)]
  /\ Idle

SpecRequest ==
  InitRequest /\ [][request]_vars

\* ------------------------------------------------------------ the templates
\* The context along the parts of a {{dotted.path}} token or of a path given
\* to get_nested, as for PayloadChains.
ContextChains ==
  PayloadChains

\* The defaults the callers of get_nested supply: '', 0 and None.
Defaults ==
  {"empty_string", "zero", "null"}

RECURSIVE replace_var_unchecked(_, _)
\* replace_var with value[part] taken without the test of line 37.
replace_var_unchecked(chain, i) ==
  IF i = Len(chain)
    THEN [raised |-> "",
          text |-> IF chain[i] \in {"empty_list", "list", "empty_dict", "dict"}
                     THEN "json" ELSE IF chain[i] = "empty_string" THEN "" ELSE "str"]
  ELSE IF i # 0 /\ chain[i] # "dict" THEN [raised |-> "TypeError", text |-> ""]
  ELSE IF chain[i + 1] = "absent" THEN [raised |-> "KeyError", text |-> ""]
  ELSE replace_var_unchecked(chain, i + 1)

RECURSIVE replace_var(_, _)
\* replace_var of render_template (template.py, lines 33-43) after i parts of
\* the token's path: the text that replaces the token, json.dumps of a dict
\* or list, str of anything else, and '' when a part does not resolve.
replace_var(chain, i) ==
  IF i = Len(chain)
    THEN [raised |-> "",
          text |-> IF chain[i] \in {"empty_list", "list", "empty_dict", "dict"}
                     THEN "json" ELSE IF chain[i] = "empty_string" THEN "" ELSE "str"]
  ELSE IF (i = 0 \/ chain[i] = "dict") /\ chain[i + 1] # "absent"
    THEN replace_var(chain, i + 1)
    ELSE [raised |-> "", text |-> ""]

InitTemplate ==
  /\ InitIdle
  /\ \E chain \in ContextChains, default \in Defaults :
       call = [op |-> "template", function |-> "none", chain |-> chain,
               default |-> default, raised |-> "", result |-> ""]

\* render_template (template.py, lines 32-45) meets a token with the path.
render_template ==
  /\ call.op = "template"
  /\ call.function = "none"
  /\ LET r == replace_var(call.chain, 0)
     IN call' = [call EXCEPT !.function = "render_template", !.raised = r.raised,
                             !.result = r.text]
  /\ Idle

\* A call of get_nested (template.py, lines 9-16) with the path and the
\* default.
get_nested_call ==
  /\ call.op = "template"
  /\ call.function = "none"
  /\ call' = [call EXCEPT !.function = "get_nested",
                          !.result = get_nested(call.chain, 0, call.default)]
  /\ Idle

NextTemplate ==
  \/ render_template
  \/ get_nested_call

SpecTemplate ==
  InitTemplate /\ [][NextTemplate]_vars

\* ------------------------------------------------- the provider clients
\* MyTaxProvider: UnofficialMyTaxClient (variant A), OfficialMyTaxClient
\* (variant B).
Providers ==
  {"unofficial_api", "official_api"}

\* What profile.access_token can hold: None, '', white space, a bare token,
\* a JSON object with a token, with a token of white space, without a token.
AccessTokens ==
  {"none", "empty", "blank", "token", "json_token", "json_blank_token", "json_no_token"}

\* What profile.cookie_blob can hold: None, '', white space, name=value
\* pairs, a JSON object with a cookie, with a cookie of white space, a JSON
\* list of cookies, a JSON value with no cookie in it.
CookieBlobs ==
  {"none", "empty", "blank", "pairs", "json_cookie", "json_blank_cookie", "json_list",
   "json_no_cookie"}

\* extract_access_token (lines 59-68): whether the token it returns is empty.
extract_access_token(raw) ==
  IF raw \in {"none", "empty", "blank", "json_blank_token"} THEN "" ELSE "token"

\* normalize_cookie_blob (lines 81-116): whether the cookie header it returns
\* is empty.
normalize_cookie_blob(raw) ==
  IF raw \in {"none", "empty", "blank", "json_blank_cookie"} THEN "" ELSE "cookie"

\* MyTaxClient.ensure_authenticated, which the two variants override.
ensure_authenticated_base(p) ==
  IF ~p.is_authenticated THEN "MyTaxAuthError" ELSE ""

\* ensure_authenticated of the variant of the profile (lines 247-251 and
\* 382-386): the exception raised, if any.
ensure_authenticated(p) ==
  IF ~p.is_authenticated THEN "MyTaxAuthError"
  ELSE IF p.provider = "unofficial_api"
    THEN IF extract_access_token(p.access_token) = ""
            /\ normalize_cookie_blob(p.cookie_blob) = ""
           THEN "MyTaxAuthError" ELSE ""
  ELSE IF p.access_token \in {"none", "empty"} THEN "MyTaxAuthError" ELSE ""

InitClient ==
  /\ InitIdle
  /\ \E provider \in Providers, is_authenticated \in BOOLEAN,
        access_token \in AccessTokens, cookie_blob \in CookieBlobs,
        proxy_base_url \in {"", "url"} :
       call = [op |-> "client",
               profile |-> [provider |-> provider, is_authenticated |-> is_authenticated,
                            access_token |-> access_token, cookie_blob |-> cookie_blob],
               proxy_base_url |-> proxy_base_url,
               method |-> "none", raised |-> "", requests |-> 0]

\* create_receipt of the provider client up to its request (lines 345-370
\* and 391-406).
create_receipt ==
  /\ call.op = "client"
  /\ call.method = "none"
  /\ LET refused == ensure_authenticated(call.profile)
     IN call' = IF refused # ""
                  THEN [call EXCEPT !.method = "create_receipt", !.raised = refused]
                ELSE IF call.profile.provider = "official_api" /\ call.proxy_base_url = ""
                  THEN [call EXCEPT !.method = "create_receipt", !.raised = "MyTaxApiError"]
                ELSE [call EXCEPT !.method = "create_receipt", !.requests = @ + 1]
  /\ Idle

\* cancel_receipt of the provider client up to its request (lines 375-378
\* and 411-414).
cancel_receipt ==
  /\ call.op = "client"
  /\ call.method = "none"
  /\ LET refused == ensure_authenticated(call.profile)
     IN call' = IF refused # ""
                  THEN [call EXCEPT !.method = "cancel_receipt", !.raised = refused]
                  ELSE [call EXCEPT !.method = "cancel_receipt", !.requests = @ + 1]
  /\ Idle

NextClient ==
  \/ create_receipt
  \/ cancel_receipt

SpecClient ==
  InitClient /\ [][NextClient]_vars

\* ------------------------------------------------------- relay_notification
RelayModes ==
  {"fire_and_forget", "retry_until_200"}

\* The relay_targets rows of the store: is_active, and how the target answers
\* the requests of one call: with HTTP 200 from request number ok_from on, and
\* before that either with another status code or with no response at all.
RelayTargets ==
  [is_active : BOOLEAN,
   ok_from : 1..(MaxRetryLimit + 1),
   failure : {"other_status", "exception"}]

RelayTargetLists ==
  UNION {[1..n -> RelayTargets] : n \in 0..MaxTargets}

\* What the n-th client.request to the target ends with.
client_request(target, n) ==
  IF n >= target.ok_from THEN "200" ELSE target.failure

max(a, b) ==
  IF a >= b THEN a ELSE b

\* The n-th request to a target with any response, whatever its status code,
\* taken for the confirmation.
relay_target_any_response(status, store, target, n) ==
  LET response == client_request(target, n)
  IN IF store.relay_mode = "fire_and_forget"
       THEN [status |-> IF response = "exception" THEN "partial_error" ELSE status,
             next |-> TRUE, error |-> FALSE]
     ELSE IF response # "exception"
       THEN [status |-> status, next |-> TRUE, error |-> FALSE]
     ELSE IF n + 1 <= max(1, store.relay_retry_limit)
       THEN [status |-> status, next |-> FALSE, error |-> FALSE]
     ELSE [status |-> "error", next |-> TRUE, error |-> TRUE]

\* The n-th request to a target with the status assigned whatever the target
\* answered.
relay_target_last(status, store, target, n) ==
  LET response == client_request(target, n)
  IN IF store.relay_mode = "fire_and_forget"
       THEN [status |-> IF response = "exception" THEN "partial_error" ELSE "success",
             next |-> TRUE, error |-> FALSE]
     ELSE IF response = "200"
       THEN [status |-> "success", next |-> TRUE, error |-> FALSE]
     ELSE IF n + 1 <= max(1, store.relay_retry_limit)
       THEN [status |-> status, next |-> FALSE, error |-> FALSE]
     ELSE [status |-> "error", next |-> TRUE, error |-> TRUE]

\* The n-th request to a target in the body of the loop over the targets
\* (lines 40-57): the status after it, whether the loop goes on to the next
\* target, and whether line 57 recorded the error for this target.
relay_target(status, store, target, n) ==
  LET response == client_request(target, n)
  IN IF store.relay_mode = "fire_and_forget"
       THEN [status |-> IF response = "exception" THEN "partial_error" ELSE status,
             next |-> TRUE, error |-> FALSE]
     ELSE IF response = "200"
       THEN [status |-> status, next |-> TRUE, error |-> FALSE]
     ELSE IF n + 1 <= max(1, store.relay_retry_limit)
       THEN [status |-> status, next |-> FALSE, error |-> FALSE]
     ELSE [status |-> "error", next |-> TRUE, error |-> TRUE]

InitRelay ==
  /\ InitIdle
  /\ \E rows \in RelayTargetLists, relay_mode \in RelayModes,
        relay_retry_limit \in 0..MaxRetryLimit :
       call = [op |-> "relay_notification", rows |-> rows,
               store |-> [relay_mode |-> relay_mode,
                          relay_retry_limit |-> relay_retry_limit],
               targets |-> SelectActive(rows), k |-> 1, n |-> 1, status |-> "success",
               sent |-> [id \in 1..Len(rows) |-> 0], errors |-> {},
               result |-> "running"]

\* relay_notification (lines 13-59): the return without targets, one request
\* to the target the loop is at, or the return after the last target.  sent
\* counts the requests to each row and errors holds the rows line 57 ran for.
relay_notification ==
  /\ call.op = "relay_notification"
  /\ call.result = "running"
  /\ IF call.targets = << >>
       THEN call' = [call EXCEPT !.result = "no_targets"]
       ELSE IF call.k > Len(call.targets)
              THEN call' = [call EXCEPT !.result = call.status]
              ELSE LET id == call.targets[call.k]
                       r == relay_target(call.status, call.store, call.rows[id], call.n)
                   IN call' = [call EXCEPT
                                 !.k = IF r.next THEN @ + 1 ELSE @,
                                 !.n = IF r.next THEN 1 ELSE @ + 1,
                                 !.status = r.status,
                                 !.sent[id] = @ + 1,
                                 !.errors = IF r.error THEN @ \cup {id} ELSE @]
  /\ Idle

SpecRelay ==
  InitRelay /\ [][relay_notification]_vars

\* The call is not suspended for ever: each await of relay_notification ends,
\* by the response or by the timeout of 15 seconds of the client (line 27).
SpecRelayLive ==
  SpecRelay /\ WF_vars(relay_notification)

\* =================================================================== claims
\* The task of the pass worker w has open, 0 if it has none.
PassTask(w) ==
  sess[w].task

\* In this step the pass of worker w commits a generic failure: straight from
\* the provider call, or after the provider call succeeded and the event is
\* not marked processed.
GenericCommit(w) ==
  /\ \/ pc[w] = "flushed"
     \/ /\ pc[w] = "notifying"
        /\ sess[w].outcome = "ok"
        /\ events'[sess[w].t.event_id].status # "processed"
  /\ pc'[w] = "ready"
  /\ tasks'[PassTask(w)].attempts # tasks[PassTask(w)].attempts

\* C1: with two worker processes no task is ever held by the open passes of
\* both workers at once, so that concurrent polling never sends one task to
\* the provider twice.
C1_NoDoublePick ==
  \A w1, w2 \in Workers :
    (w1 # w2 /\ PassTask(w1) # 0) => PassTask(w1) # PassTask(w2)

\* C2: with one worker process at most one pass is open and at most one task
\* carries the processing mark at any time.
C2_OneInFlight ==
  /\ Cardinality({w \in Workers : PassTask(w) # 0}) <= 1
  /\ Cardinality({i \in TaskIds :
                    \/ tasks[i].status = "processing"
                    \/ \E w \in Workers :
                         PassTask(w) = i /\ sess[w].t.status = "processing"}) <= 1

\* A pass is open while another task is eligible.
C2_Witness ==
  \E w \in Workers : PassTask(w) # 0 /\ Eligible \ {PassTask(w)} # {}

\* C3: the row a pass selected was pending or waiting_auth and due when it was
\* selected, and the row is due whenever the pass is about to call the provider.
C3_SelectedWasDue ==
  \A w \in Workers :
    PassTask(w) # 0 =>
      /\ sess[w].loaded.status \in {"pending", "waiting_auth"}
      /\ sess[w].loaded.next_retry_at <= utcnow
      /\ pc[w] = "flushed" => tasks[PassTask(w)].next_retry_at <= utcnow

\* A waiting_auth task has been picked again, after its delay.
C3_Witness ==
  \E w \in Workers :
    /\ pc[w] = "flushed"
    /\ sess[w].loaded.status = "waiting_auth"
    /\ sess[w].loaded.attempts >= 1

\* C4: the task a tick selects is eligible at that tick and no eligible task
\* was created before it, whatever older tasks are not eligible.
C4_OldestEligibleFirst ==
  [][\A w \in Workers :
       (pc[w] = "ready" /\ pc'[w] = "selected") =>
          /\ sess'[w].task \in Eligible
          /\ \A j \in Eligible : tasks[sess'[w].task].created_at <= tasks[j].created_at]_vars

\* The second task has been selected while the first, created earlier, backs off.
C4_Witness ==
  \E w \in Workers :
    /\ pc[w] = "selected"
    /\ PassTask(w) = 2
    /\ tasks[1].status = "pending"
    /\ tasks[1].next_retry_at > utcnow

\* C5: once a pass is past its flush, at its provider call or its
\* notifications, the committed row carries the processing mark and the
\* incremented attempts.
C5_MarkDurableBeforeIO ==
  \A w \in Workers :
    pc[w] \in {"flushed", "notifying"} =>
      /\ tasks[PassTask(w)].status = "processing"
      /\ tasks[PassTask(w)].attempts = sess[w].t.attempts

\* C6: a pass in which the provider answered 401/403 sets next_retry_at to
\* now + 900 seconds and ends with waiting_auth, that retry time, the failed
\* event with the error text and the unauthenticated profile with its
\* last_error committed.
C6_AuthRequiredCommitted ==
  [][\A w \in Workers :
       /\ (pc[w] = "flushed" /\ pc'[w] = "notifying" /\ sess'[w].outcome = "auth") =>
             sess'[w].t.next_retry_at = utcnow + 900
       /\ (/\ pc[w] = "notifying"
           /\ sess[w].outcome = "auth"
           /\ sess[w].prof_loaded.is_authenticated
           /\ pc'[w] = "ready") =>
             /\ tasks'[PassTask(w)].status = "waiting_auth"
             /\ tasks'[PassTask(w)].next_retry_at = sess[w].t.next_retry_at
             /\ events'[sess[w].t.event_id].status = "failed"
             /\ events'[sess[w].t.event_id].error_message = "auth"
             /\ ~profile'.is_authenticated
             /\ profile'.last_error = "auth"]_vars

\* C7: a pass that met authentication-required holds waiting_auth whatever its
\* attempts, never leaves the task failed, and what it commits is waiting_auth.
C7_AuthNotGatedByAttempts ==
  [][\A w \in Workers :
       (pc[w] = "notifying" /\ sess[w].outcome = "auth") =>
          /\ sess[w].t.status = "waiting_auth"
          /\ tasks'[PassTask(w)].status # "failed"
          /\ tasks'[PassTask(w)].status \in {"waiting_auth", tasks[PassTask(w)].status}
          /\ tasks'[PassTask(w)].attempts # tasks[PassTask(w)].attempts =>
                tasks'[PassTask(w)].status = "waiting_auth"]_vars

\* A task is committed in waiting_auth with its attempts at the ceiling.
C7_Witness ==
  \E i \in TaskIds :
    /\ tasks[i].status = "waiting_auth"
    /\ tasks[i].attempts >= tasks[i].max_attempts

\* C8: a pass that commits a generic failure with attempts, after its
\* increment, below max_attempts leaves the task pending with next_retry_at =
\* now + min(300, attempts * 20) and the event failed: 60 seconds on attempt 3.
C8_RetryBackoff ==
  [][\A w \in Workers :
       (GenericCommit(w) /\ tasks'[PassTask(w)].attempts < tasks'[PassTask(w)].max_attempts) =>
          LET row == tasks'[PassTask(w)]
          IN /\ row.status = "pending"
             /\ row.attempts = sess[w].t.attempts
             /\ row.next_retry_at = utcnow + Min(300, row.attempts * 20)
             /\ row.attempts = 3 => row.next_retry_at = utcnow + 60
             /\ events'[row.event_id].status = "failed"]_vars

\* A task backs off for the capped 300 seconds after its 16th attempt.
C8_Witness ==
  \E i \in TaskIds :
    /\ tasks[i].status = "pending"
    /\ tasks[i].attempts = 16
    /\ tasks[i].next_retry_at = utcnow + 300
    /\ events[tasks[i].event_id].status = "failed"

\* C9: a pass that commits a generic failure with attempts at or above
\* max_attempts leaves the task and the event failed; a task that was never
\* requeued and whose every pass ended in a generic failure has been dispatched
\* as often as its attempts say, at most max_attempts times, and is failed
\* exactly when that number is reached.
C9_AttemptCeiling ==
  [][/\ \A w \in Workers :
          (GenericCommit(w) /\ tasks'[PassTask(w)].attempts >= tasks'[PassTask(w)].max_attempts) =>
             /\ tasks'[PassTask(w)].status = "failed"
             /\ events'[sess[w].t.event_id].status = "failed"
     /\ \A i \in 1..Len(tasks') :
          plain'[i] =>
             /\ dispatched'[i] <= tasks'[i].max_attempts
             /\ tasks'[i].attempts <= dispatched'[i]
             /\ dispatched'[i] <= tasks'[i].attempts + 1
             /\ tasks'[i].status = "failed" <=> tasks'[i].attempts = tasks'[i].max_attempts
             /\ tasks'[i].status = "failed" => dispatched'[i] = tasks'[i].max_attempts]_vars

\* A task whose every pass ended in a generic failure has failed for good.
C9_Witness ==
  \E i \in TaskIds :
    /\ plain[i]
    /\ tasks[i].status = "failed"
    /\ dispatched[i] = tasks[i].max_attempts

\* C10: attempts never decreases, and a task in a terminal status has
\* attempts <= max_attempts.
C10_AttemptsBounded ==
  [][\A i \in TaskIds :
       /\ tasks'[i].attempts >= tasks[i].attempts
       /\ tasks'[i].status \in {"failed", "success"} =>
             tasks'[i].attempts <= tasks'[i].max_attempts]_vars

\* C11: a pass that finds the store without its credential profile ends at
\* its loads, before the provider call: the task is committed failed with the
\* diagnostic message and the incremented attempts, its next_retry_at is left
\* alone, and the worker's query does not admit it any more.
C11_UnresolvedIsTerminal ==
  [][\A w \in Workers :
       (pc[w] = "selected" /\ mytax_profile_id = 0 /\ pc'[w] \notin {"selected", "off"}) =>
          LET row == tasks'[PassTask(w)]
          IN /\ pc'[w] = "ready"
             /\ sess'[w].task = 0
             /\ row.status = "failed"
             /\ row.error_message = "not_found"
             /\ row.attempts = sess[w].t.attempts
             /\ row.next_retry_at = tasks[PassTask(w)].next_retry_at
             /\ ~IsEligible(row)
             /\ events' = events
             /\ profile' = profile]_vars

\* A task has failed because the store had no profile.
C11_Witness ==
  \E i \in TaskIds :
    /\ tasks[i].status = "failed"
    /\ tasks[i].error_message = "not_found"
    /\ tasks[i].attempts = 1

\* C12: the pass that finds a cancel_receipt task without receipt_uuid leaves
\* the task in the terminal failed status, never pending for a retry.
C12_MissingUuidIsTerminal ==
  [][\A w \in Workers :
       (/\ pc[w] = "flushed"
        /\ sess[w].t.task_type = "cancel_receipt"
        /\ sess[w].t.receipt_uuid = 0
        /\ pc'[w] = "ready") =>
          /\ tasks'[PassTask(w)].status = "failed"
          /\ tasks'[PassTask(w)].status # "pending"]_vars

\* C13: a pass whose provider call succeeded ends with the task committed in
\* success, whatever its notifications end with.
C13_NotificationNotEscalated ==
  [][\A w \in Workers :
       (pc[w] = "notifying" /\ sess[w].outcome = "ok" /\ pc'[w] = "ready") =>
          /\ tasks'[PassTask(w)].status = "success"
          /\ tasks'[PassTask(w)].next_retry_at = tasks[PassTask(w)].next_retry_at]_vars

\* C14: whatever the notification of the authentication-required bucket ends
\* with, the pass commits what the bucket applied: waiting_auth, the retry
\* time 15 minutes after the handler ran, the incremented attempts, the failed
\* event and, for a profile that was authenticated, the cleared flag.
C14_BookkeepingSurvivesNotification ==
  [][\A w \in Workers :
       (pc[w] = "notifying" /\ sess[w].outcome = "auth" /\ pc'[w] = "ready") =>
          /\ tasks'[PassTask(w)].status = "waiting_auth"
          /\ tasks'[PassTask(w)].attempts = sess[w].t.attempts
          /\ tasks'[PassTask(w)].next_retry_at = sess[w].t.next_retry_at
          /\ events'[sess[w].t.event_id].status = "failed"
          /\ sess[w].prof_loaded.is_authenticated => ~profile'.is_authenticated]_vars

\* C15: a step of a pass either leaves the committed tables as they are or
\* ends the pass with all of its changes committed at once: the incremented
\* attempts, the final status, the event update that goes with that status,
\* the receipt insert or cancel mark and the clearing of the last_error the
\* pass found on the profile; the processing mark is never committed on its own.
C15_OneCommitPerPass ==
  [][\A w \in Workers :
       (pc[w] \in {"selected", "flushed", "notifying"} /\ pc'[w] # pc[w]) =>
          LET i == PassTask(w)
              e == sess[w].t.event_id
              latest == LatestReceipt(sess[w].t.payment_id)
          IN \/ UNCHANGED <<tasks, events, receipts, profile>>
             \/ /\ pc'[w] = "ready"
                /\ tasks'[i].attempts = sess[w].t.attempts
                /\ tasks'[i].status \in {"success", "pending", "failed", "waiting_auth"}
                /\ tasks'[i].status = "success" =>
                      /\ events'[e].status = "processed"
                      /\ sess[w].prof_loaded.last_error # "" => profile'.last_error = ""
                      /\ sess[w].t.task_type = "create_receipt" =>
                            /\ Len(receipts') = Len(receipts) + 1
                            /\ receipts'[Len(receipts')].task_id = i
                      /\ (sess[w].t.task_type = "cancel_receipt" /\ latest # 0) =>
                            receipts'[latest].status = "canceled"
                /\ tasks'[i].status \in {"pending", "waiting_auth"} =>
                      events'[e].status = "failed"
                /\ tasks'[i].status = "failed" =>
                      \/ events'[e].status = "failed"
                      \/ tasks'[i].error_message = "not_found" /\ events' = events]_vars

\* A create_receipt pass has committed: success, the processed event and the
\* receipt row are there together.
C15_Witness ==
  \E i \in TaskIds :
    /\ tasks[i].status = "success"
    /\ events[tasks[i].event_id].status = "processed"
    /\ \E r \in 1..Len(receipts) : receipts[r].task_id = i

\* In this step the pass of worker w, whose provider call succeeded, ends
\* outside the generic-failure bucket: its branch completed without exception.
BranchCompleted(w) ==
  /\ pc[w] = "notifying"
  /\ sess[w].outcome = "ok"
  /\ pc'[w] = "ready"
  /\ events'[sess[w].t.event_id].status # "failed"

LiveReceipts(payment) ==
  {r \in 1..Len(receipts) :
     receipts[r].payment_id = payment /\ receipts[r].status # "canceled"}

\* C17: a cancel_receipt pass that commits success marks as canceled the most
\* recently created receipt of the payment among those not yet canceled, and
\* leaves every other receipt as it was.
C17_CancelsLatestLiveReceipt ==
  [][\A w \in Workers :
       (BranchCompleted(w) /\ sess[w].t.task_type = "cancel_receipt") =>
          LET live == LiveReceipts(sess[w].t.payment_id)
          IN live # {} =>
               \E r \in live :
                  /\ \A q \in live : q <= r
                  /\ receipts'[r].status = "canceled"
                  /\ \A q \in 1..Len(receipts) : q # r => receipts'[q] = receipts[q]]_vars

\* C18: a worker loop that has selected a task is not stopped before the pass
\* has ended: cancellation takes effect between ticks only.
C18_CancelBetweenTicksOnly ==
  [][\A w \in Workers :
       pc[w] \in {"selected", "flushed", "notifying"} => pc'[w] # "off"]_vars

\* The model has stopped following the queue: its passes or detours are spent.
BudgetSpent ==
  \/ SumAttempts(Len(tasks)) >= PassLimit
  \/ detours >= budget.detours

\* C19: an authentication failure suspends only the affected task: with the
\* worker ticking, every task that is eligible is eventually selected by a
\* pass, whatever the other tasks of the queue meet at the provider and
\* whatever their notifications end with.
C19_AuthSuspendsOnlyTheTask ==
  \A i \in 1..MaxTasks :
     (i \in TaskIds /\ IsEligible(tasks[i]))
        ~> ((\E w \in Workers : PassTask(w) = i) \/ BudgetSpent)

\* C20: without a manual requeue success and failed are terminal: in every step
\* other than a retry_task of that task, a task whose committed status is
\* success or failed is not selected by a worker, and its status, attempts and
\* next_retry_at stay as they are.
C20_TerminalWithoutRequeue ==
  [][\A i \in TaskIds :
       (/\ tasks[i].status \in {"success", "failed"}
        /\ ~retry_task(i)
        /\ ~(retry.task = i /\ retry_task_resume)) =>
          /\ tasks'[i].status = tasks[i].status
          /\ tasks'[i].attempts = tasks[i].attempts
          /\ \/ tasks'[i].next_retry_at = tasks[i].next_retry_at
             \/ \E d \in DueInstants : AdvanceTime(d)
          /\ \A w \in Workers :
                (pc[w] = "ready" /\ pc'[w] = "selected") => PassTask(w)' # i]_vars

\* C21: the manual requeue, applied to a task in any status, leaves the task
\* with status pending, an empty error text and next_retry_at = now once the
\* request has been served, so that the task is eligible at the next tick.
C21_RequeueResetsTask ==
  [][\A i \in TaskIds :
       (\/ retry_task(i) /\ ~RowBusy(i)
        \/ retry_task_resume /\ retry.task = i) =>
          /\ tasks'[i].status = "pending"
          /\ tasks'[i].error_message = ""
          /\ tasks'[i].next_retry_at = utcnow
          /\ IsEligible(tasks'[i])]_vars

\* C22: worker_loop survives a failing tick: a tick that raises leaves the
\* loop running, ready for its next tick, and a running loop stops only by
\* cancellation: the interrupt of the standalone process or the shutdown of
\* the API process.
C22_LoopSurvivesFailingTick ==
  [][\A w \in Workers :
       pc[w] # "off" =>
          /\ pc'[w] = "off" => (Interrupt \/ shutdown_event)
          /\ (/\ pc[w] = "notifying"
              /\ sess'[w] = NoSession
              /\ UNCHANGED <<tasks, events, receipts, profile>>
              /\ ~Interrupt
              /\ ~shutdown_event) => pc'[w] = "ready"]_vars

\* A tick raised and rolled its pass back (the task was never committed and
\* no detour is left charged), and the loop has selected the task again.
C22_Witness ==
  \E w \in Workers :
    /\ pc[w] = "selected"
    /\ detours = 0
    /\ ~plain[PassTask(w)]
    /\ tasks[PassTask(w)].attempts = 0

\* C23: in notify_store delivery to each matching active channel is
\* independent and best-effort: notify_store does not fail, and when it has
\* ended a POST was attempted to every active channel subscribed to the event.
C23_ChannelsIndependent ==
  (call.op = "notify_store" /\ call.result # "running") =>
     /\ call.result = "returned"
     /\ call.posted = {id \in 1..Len(call.rows) :
                         call.rows[id].is_active /\ Subscribed(call.rows[id])}

\* C24: a timeout or transport error of the call to the fiscal provider is a
\* generic failure and is never swallowed: the pass ends committed, with the
\* attempt counted and the error text recorded on the task and the event, the
\* task pending with its backoff, or failed when the attempts are exhausted;
\* never success, never waiting_auth.
C24_TimeoutIsGenericFailure ==
  [][\A w \in Workers :
       (/\ pc[w] = "flushed"
        /\ sess[w].prof.is_authenticated
        /\ ~(sess[w].t.task_type = "cancel_receipt" /\ sess[w].t.receipt_uuid = 0)
        /\ Provider(w, "timeout")) =>
          LET row == tasks'[PassTask(w)]
          IN /\ pc'[w] = "ready"
             /\ row.attempts = sess[w].t.attempts
             /\ row.error_message = "error"
             /\ events'[row.event_id].status = "failed"
             /\ events'[row.event_id].error_message = "error"
             /\ receipts' = receipts
             /\ IF row.attempts >= row.max_attempts
                  THEN row.status = "failed"
                  ELSE /\ row.status = "pending"
                       /\ row.next_retry_at = utcnow + Backoff(row.attempts)]_vars

\* C24, amended: as above, except that the error text of the task is not
\* written again when it is the text the pass loaded with the row; a manual
\* requeue committed during the pass then leaves the text empty.
C24_TimeoutIsGenericFailureAmended ==
  [][\A w \in Workers :
       (/\ pc[w] = "flushed"
        /\ sess[w].prof.is_authenticated
        /\ ~(sess[w].t.task_type = "cancel_receipt" /\ sess[w].t.receipt_uuid = 0)
        /\ Provider(w, "timeout")) =>
          LET row == tasks'[PassTask(w)]
          IN /\ pc'[w] = "ready"
             /\ row.attempts = sess[w].t.attempts
             /\ row.error_message \in {"error", ""}
             /\ sess[w].loaded.error_message # "error" => row.error_message = "error"
             /\ events'[row.event_id].status = "failed"
             /\ events'[row.event_id].error_message = "error"
             /\ receipts' = receipts
             /\ IF row.attempts >= row.max_attempts
                  THEN row.status = "failed"
                  ELSE /\ row.status = "pending"
                       /\ row.next_retry_at = utcnow + Backoff(row.attempts)]_vars

\* The first call of a task met a timeout: the task waits 20 seconds for its
\* second attempt, the error recorded, with no receipt registered.
C24_Witness ==
  \E i \in TaskIds :
    /\ tasks[i].task_type = "create_receipt"
    /\ tasks[i].status = "pending"
    /\ tasks[i].attempts = 1
    /\ tasks[i].next_retry_at = utcnow + BackoffStepSeconds
    /\ tasks[i].error_message = "error"
    /\ events[tasks[i].event_id].status = "failed"
    /\ receipts = << >>
    /\ plain[i]

\* C25: a missing or unparseable amount counts as zero: when the value at the
\* store's amount path is absent, null, empty or not a number, the create
\* branch still invokes the provider's create-receipt operation, with amount
\* 0, and raises nothing.
C25_UnparseableAmountIsZero ==
  (call.op = "create_receipt" /\ call.amount_raw # "unset") =>
     (call.amount_raw \notin {"number", "numeric_string", "true"} =>
        /\ call.invoked
        /\ call.amount = 0
        /\ call.raised = "")

\* C26: a failure to write the audit-log entry of a transition never aborts
\* the transition: when the app_logs write of a pass fails, the attempt and
\* the status change of the task are committed all the same.
C26_AuditFailureKeepsTransition ==
  [][\A w \in Workers :
       AppLogWriteFails(w) =>
          /\ tasks'[PassTask(w)].attempts = sess[w].t.attempts
          /\ tasks'[PassTask(w)].status # "processing"
          /\ events'[sess[w].t.event_id].status # "received"]_vars

\* In this step the pass of worker w commits.
PassCommits(w) ==
  /\ pc[w] \in {"selected", "flushed", "notifying"}
  /\ pc'[w] = "ready"
  /\ tasks' # tasks

\* The event tag that identifies the transition to a status.
AuditTag(status) ==
  CASE status = "success" -> "worker_task_success"
    [] status = "pending" -> "worker_task_retry"
    [] status = "failed" -> "worker_task_failed"
    [] status = "waiting_auth" -> "worker_auth_required"

\* C27: every transition of a task the worker commits comes with exactly one
\* audit-log entry, written by the same pass, whose event tag identifies the
\* transition; the worker's entries are written by such commits only.
C27_TransitionsAudited ==
  [][/\ \A w \in Workers :
          PassCommits(w) =>
             app_logs' = Append(app_logs,
                                [task |-> PassTask(w),
                                 event |-> AuditTag(tasks'[PassTask(w)].status)])
     /\ app_logs' # app_logs => \E w \in Workers : PassCommits(w)]_vars

\* A task went through a retry, an authentication failure and a success, and
\* each of the three left its entry.
C27_Witness ==
  \E i \in TaskIds :
    /\ tasks[i].status = "success"
    /\ tasks[i].attempts = 3
    /\ \E a, b, c \in 1..Len(app_logs) :
          /\ a < b /\ b < c
          /\ app_logs[a] = [task |-> i, event |-> "worker_task_retry"]
          /\ app_logs[b] = [task |-> i, event |-> "worker_auth_required"]
          /\ app_logs[c] = [task |-> i, event |-> "worker_task_success"]

\* C28: the provider clients classify every HTTP response into one outcome,
\* in this order: 401 or 403 raises the authentication error; any other
\* status of 400 or more raises the provider error with the status and the
\* body; otherwise the call returns, an empty result for an empty body and a
\* wrapped value for a body that is not valid JSON, and raises nothing.
C28_ResponseClassified ==
  (call.op = "_request" /\ call.done /\ call.transport = "response") =>
     LET r == call.result
     IN IF call.status_code \in {401, 403}
          THEN r.raised = "MyTaxAuthError"
        ELSE IF call.status_code >= 400
          THEN /\ r.raised = "MyTaxApiError"
               /\ r.status_code = call.status_code
               /\ r.response_text = call.body
        ELSE /\ r.raised = ""
             /\ call.body \in {"empty", "blank"} => r.value = "empty_dict"
             /\ call.body = "not_json" => r.value = "raw_text"
             /\ call.body = "json_object" => r.value = "object"
             /\ call.body = "json_other" => r.value = "other"

\* The profile is not usable: is_authenticated is off, or the access token
\* is empty and, for variant A, the cookie blob is empty as well.
Unusable(p) ==
  \/ ~p.is_authenticated
  \/ /\ p.provider = "unofficial_api"
     /\ p.access_token \in {"none", "empty"}
     /\ p.cookie_blob \in {"none", "empty"}
  \/ /\ p.provider = "official_api"
     /\ p.access_token \in {"none", "empty"}

\* C29: create_receipt and cancel_receipt of the provider client send no HTTP
\* request when the profile is not usable: the operation raises the
\* authentication error before any request is made.
C29_NoRequestWhenUnusable ==
  (call.op = "client" /\ call.method # "none" /\ Unusable(call.profile)) =>
     /\ call.raised = "MyTaxAuthError"
     /\ call.requests = 0

\* An authenticated profile of variant A with neither token nor cookie was
\* refused by create_receipt.
C29_Witness ==
  /\ call.op = "client"
  /\ call.method = "create_receipt"
  /\ call.profile.is_authenticated
  /\ call.profile.provider = "unofficial_api"
  /\ call.profile.access_token = "empty"
  /\ call.profile.cookie_blob = "none"
  /\ call.raised = "MyTaxAuthError"
  /\ call.requests = 0

\* The outcome of relaying to one target: a fire-and-forget request fails
\* only by raising, a confirmed one by getting no HTTP 200 within the limit.
TargetOutcome(store, target) ==
  IF store.relay_mode = "fire_and_forget"
    THEN IF target.ok_from > 1 /\ target.failure = "exception"
           THEN "partial_error" ELSE "success"
    ELSE IF target.ok_from <= 1 \/ target.ok_from <= store.relay_retry_limit
           THEN "success" ELSE "error"

\* success < partial_error < error
Severity(outcome) ==
  CASE outcome = "success" -> 0
    [] outcome = "partial_error" -> 1
    [] outcome = "error" -> 2

\* C30: relay_notification returns no_targets when the store has no active
\* relay target; otherwise it returns the worst outcome over all active
\* targets, so that a success after an error never resets the status.
C30_WorstOutcome ==
  (call.op = "relay_notification" /\ call.result # "running") =>
     LET active == {id \in 1..Len(call.rows) : call.rows[id].is_active}
         outcomes == {TargetOutcome(call.store, call.rows[id]) : id \in active}
     IN IF active = {}
          THEN call.result = "no_targets"
          ELSE /\ call.result \in outcomes
               /\ \A o \in outcomes : Severity(o) <= Severity(call.result)

\* Under "retry until 200" the first of two active targets never answered 200,
\* the second did at once, and the call returned error.
C30_Witness ==
  /\ call.op = "relay_notification"
  /\ call.store.relay_mode = "retry_until_200"
  /\ Len(call.rows) = 2
  /\ call.rows[1].is_active
  /\ call.rows[2].is_active
  /\ call.rows[1].ok_from > max(1, call.store.relay_retry_limit)
  /\ call.rows[2].ok_from = 1
  /\ call.result = "error"

\* The rows of relay_targets the loop has finished with.
Relayed ==
  {call.targets[j] : j \in 1..(IF call.k - 1 < Len(call.targets)
                                 THEN call.k - 1 ELSE Len(call.targets))}

\* The requests sent to the rows so far stopped at the first HTTP 200, and
\* the error was recorded for exactly the finished rows none of whose
\* requests was answered with HTTP 200.
RetryStopsAndRecords ==
  /\ \A id \in 1..Len(call.rows) :
       \A n \in 1..(call.sent[id] - 1) : client_request(call.rows[id], n) # "200"
  /\ \A id \in Relayed :
       /\ call.sent[id] >= 1
       /\ id \in call.errors <=>
            \A n \in 1..call.sent[id] : client_request(call.rows[id], n) # "200"
  /\ call.errors \subseteq Relayed

\* C31 as stated: in retry-until-200 mode each target gets at most
\* relay_retry_limit requests, the requests stop at the first HTTP 200, the
\* error is recorded exactly when no request was answered with HTTP 200, and
\* the call ends.
C31_RetryBounded ==
  /\ [](call.op = "relay_notification" /\ call.store.relay_mode = "retry_until_200" =>
          /\ \A id \in 1..Len(call.rows) : call.sent[id] <= call.store.relay_retry_limit
          /\ RetryStopsAndRecords)
  /\ <>(call.op = "relay_notification" => call.result # "running")

\* C31 amended: each target gets at most max(1, relay_retry_limit) requests,
\* so one request is sent even when the limit is 0; the requests stop at the
\* first HTTP 200, the error is recorded exactly when no request was answered
\* with HTTP 200, and the call ends.
C31_RetryBoundedAmended ==
  /\ [](call.op = "relay_notification" /\ call.store.relay_mode = "retry_until_200" =>
          /\ \A id \in 1..Len(call.rows) :
               call.sent[id] <= max(1, call.store.relay_retry_limit)
          /\ RetryStopsAndRecords)
  /\ <>(call.op = "relay_notification" => call.result # "running")

\* Under "retry until 200" with a limit of 2 the call has ended; one target
\* answered 200 to the second request and got no third, another never
\* answered 200, got two requests and has the error recorded.
C31_Witness ==
  /\ call.op = "relay_notification"
  /\ call.store.relay_mode = "retry_until_200"
  /\ call.store.relay_retry_limit = 2
  /\ call.result = "error"
  /\ \E a, b \in 1..Len(call.rows) :
       /\ call.rows[a].ok_from = 2
       /\ call.sent[a] = 2
       /\ a \notin call.errors
       /\ call.rows[b].ok_from = 3
       /\ call.sent[b] = 2
       /\ b \in call.errors

\* A POST was made for exactly the active rows whose events_json is empty or
\* contains the event, and its text carried the receipt line for exactly
\* those of them that include the receipt URL, the URL being not empty.
ChannelFilter ==
  \A id \in 1..Len(call.rows) :
     /\ id \in call.posted <=>
          /\ call.rows[id].is_active
          /\ call.rows[id].events_json \in {"empty", "with_event"}
     /\ id \in call.with_receipt <=>
          /\ id \in call.posted
          /\ call.rows[id].include_receipt_url
          /\ call.receipt_url = "url"

\* C32: when notify_store has ended, a message was sent to a channel of the
\* store if and only if the channel is active and its events_json is empty or
\* contains the event, and the message carried the receipt line exactly when
\* the channel includes the receipt URL and the URL is not empty.
C32_ChannelFilter ==
  (call.op = "notify_store" /\ call.result # "running") => ChannelFilter

\* The same for the calls in which no POST raised.
ChannelFilterWhenReturned ==
  (call.op = "notify_store" /\ call.result = "returned") => ChannelFilter

\* C33: the device id of variant A is stable: every request to the provider
\* carries the same device id, in the same pass and in every later pass, and
\* a device id stored with the profile is never replaced.
C33_DeviceIdStable ==
  /\ [](Cardinality(device.sent) <= 1)
  /\ [][profile.device_id # 0 => profile'.device_id = profile.device_id]_vars

\* C34: the payload of a PaymentEvent is immutable once created: no step of a
\* worker pass (the relay fan-out adds the receipt URL to a copy), of a
\* notification or of a requeue changes the stored payload of an event.
C34_PayloadImmutable ==
  [][\A e \in 1..Len(events) : events'[e].payload = events[e].payload]_vars

\* A pass that relayed the event with the receipt URL has committed its
\* success, and the event has the payload the webhook stored.
C34_Witness ==
  \E i \in TaskIds :
     /\ tasks[i].task_type = "create_receipt"
     /\ tasks[i].status = "success"
     /\ events[tasks[i].event_id].status = "processed"
     /\ events[tasks[i].event_id].payload =
          [keys |-> {"event", "object"}, object_id |-> tasks[i].payment_id]

\* A path does not resolve: one of its parts is missing from the dict it is
\* looked up in, or the value before it is not a dict.
Unresolved(chain) ==
  \E k \in 1..Len(chain) :
     \/ chain[k] = "absent"
     \/ k < Len(chain) /\ chain[k] # "dict"

\* C35: rendering and dotted-path lookup never fail on missing data:
\* render_template replaces a token whose path does not resolve by the empty
\* string, and get_nested returns the default it was given for such a path.
C35_MissingDataTolerated ==
  (call.op = "template" /\ call.function # "none") =>
     /\ call.raised = ""
     /\ Unresolved(call.chain) =>
          \/ call.function = "render_template" /\ call.result = ""
          \/ call.function = "get_nested" /\ call.result = call.default

\* A token whose second part is looked up in a string was rendered as the
\* empty string.
C35_Witness ==
  /\ call.op = "template"
  /\ call.function = "render_template"
  /\ Len(call.chain) = 3
  /\ call.chain[1] = "dict"
  /\ call.chain[2] = "text_string"
  /\ call.chain[3] = "number"
  /\ call.raised = ""
  /\ call.result = ""

\* The committed Receipt rows that reference task i.
ReceiptsOf(i) ==
  {r \in 1..Len(receipts) : receipts[r].task_id = i}

\* C36: at-most-once issuance: with no manual requeue, over any sequence of
\* passes, retries, notification failures and shutdowns, at most one Receipt
\* row referencing a create_receipt task is ever committed (each such row
\* records one successful completion of the provider's create operation).
C36_AtMostOnceIssuance ==
  \A i \in TaskIds :
     tasks[i].task_type = "create_receipt" => Cardinality(ReceiptsOf(i)) <= 1

\* In this step the pass of worker w ends with an exception escaping it (the
\* one notify_store raises inside the MyTaxAuthError handler) or with the
\* cancellation of its worker_loop.
Escapes(w) ==
  \/ w = "standalone" /\ Interrupt
  \/ w = "embedded" /\ shutdown_event
  \/ sess[w].outcome = "auth" /\ Notify(w, "raised")

\* C37: a pass that ends with an exception escaping it, or cancelled, before
\* its commit leaves nothing durable: no step of the pass before its end
\* changes the committed task, event, receipts or profile, and the step that
\* ends it without a commit leaves them as they are and drops the session.
C37_EscapedPassLeavesNothing ==
  [][\A w \in Workers :
       /\ (pc[w] \in {"selected", "flushed", "notifying"}
             /\ pc'[w] \in {"flushed", "notifying"}
             /\ pc'[w] # pc[w]) =>
            UNCHANGED <<tasks, events, receipts, profile>>
       /\ (pc[w] \in {"selected", "flushed", "notifying"} /\ Escapes(w)) =>
            /\ UNCHANGED <<tasks, events, receipts, profile>>
            /\ sess'[w] = NoSession]_vars

\* The lone task went to the provider in a pass that did not commit: the
\* request was sent, and the committed row is as the webhook stored it.
C37_Witness ==
  /\ Len(tasks) = 1
  /\ device.sent # {}
  /\ tasks[1].status = "pending"
  /\ tasks[1].attempts = 0
  /\ tasks[1].error_message = ""
  /\ events[1].status = "received"
  /\ receipts = << >>
  /\ profile.device_id = 0
  /\ \A w \in Workers : sess[w] = NoSession

\* C38: no committed state contains a task in status processing: every path
\* of a pass that commits has replaced the mark by success, failed, pending
\* or waiting_auth, and the mark exists only in the session of a running pass.
C38_ProcessingNeverCommitted ==
  /\ \A i \in TaskIds : tasks[i].status \in TaskStatus \ {"processing"}
  /\ \A w \in Workers :
       sess[w].t.status = "processing" => pc[w] \in {"selected", "flushed", "notifying"}

\* A task that an earlier pass committed is in a pass again: its mark is
\* flushed in the open transaction and the committed row is pending.
C38_Witness ==
  \E w \in Workers :
    /\ pc[w] = "flushed"
    /\ sess[w].flushed
    /\ sess[w].t.status = "processing"
    /\ sess[w].t.attempts = 2
    /\ tasks[PassTask(w)].status = "pending"
    /\ tasks[PassTask(w)].attempts = 1

\* C39: task and event are consistent after every committed pass: the event
\* is processed exactly when the task is success, and the event of a task
\* that is success, failed or waiting_auth is no longer received.
C39_TaskEventConsistent ==
  [][\A w \in Workers :
       PassCommits(w) =>
          LET row == tasks'[PassTask(w)]
              event == events'[sess[w].t.event_id]
          IN /\ event.status = "processed" <=> row.status = "success"
             /\ row.status \in {"success", "failed", "waiting_auth"} =>
                  event.status # "received"]_vars

\* The same for the passes that resolved store, event and profile.
TaskEventConsistentWhenResolved ==
  [][\A w \in Workers :
       (PassCommits(w) /\ pc[w] # "selected") =>
          LET row == tasks'[PassTask(w)]
              event == events'[sess[w].t.event_id]
          IN /\ event.status = "processed" <=> row.status = "success"
             /\ row.status \in {"success", "failed", "waiting_auth"} =>
                  event.status # "received"]_vars

\* C40: in a successful cancel_receipt pass the Receipt row marked canceled
\* is the receipt whose receipt_uuid, carried by the task, was sent to the
\* provider's cancel operation; the worker never cancels one receipt at the
\* provider and marks another receipt of the payment as canceled.
C40_CancelsTheReceiptSent ==
  [][\A w \in Workers :
       (/\ BranchCompleted(w)
        /\ sess[w].t.task_type = "cancel_receipt"
        /\ sess[w].canceled # 0) =>
          /\ receipts'[sess[w].canceled].status = "canceled"
          /\ receipts'[sess[w].canceled].receipt_uuid = sess[w].t.receipt_uuid]_vars

====
